---- MODULE Spec2Model ----
(***************************************************************************)
(* Model of the hoopqueens box-score persistence layer:                    *)
(*   pipeline/game_service.py  GameService (save / delete / update)        *)
(*   db/database.py            save_game_data (the dashboard's save path)  *)
(*   pipeline/data_seeder.py   DataSeeder (seed_from_dict, reset_database) *)
(* The store is the SQLite file; a Session is a transaction that becomes   *)
(* visible at commit() and is discarded when the with-block is left by an  *)
(* exception.  SQLite is opened without PRAGMA foreign_keys, so foreign    *)
(* keys declared in db/models.py are not enforced by the store.            *)
(***************************************************************************)
EXTENDS Integers, Sequences, FiniteSets, TLC

\* ---------------------------------------------------------------- bounds
\* the wall clock (one unit = one second of the %H-%M-%S stamp) runs 0..MaxClock
MaxClock == 1
\* number of service calls issued in one behaviour
MaxOps == 3

\* ------------------------------------------------------------- constants
\* a value that int() cannot coerce (None, "abc"); every other id is an int
NotAnInt == -1
\* the result of create_db_snapshot when no copy was made
NoSnapshot == <<"none", -1>>

VARIABLES
    teams,              \* Team rows:   [id, name]
    players,            \* Player rows: [id, team_id, name]
    games,              \* Game rows:   [id, game_number]
    team_box_scores,    \* TeamBoxScore rows:   [id, game_id, team_id, percentages]
    player_box_scores,  \* PlayerBoxScore rows: [id, game_id, team_id, player_id, statistics]
    snapshots,          \* snapshot directory: file name -> copied store
    now,                \* datetime.now(), in seconds
    ops,                \* calls issued so far
    last,               \* the last completed call: what it was given, returned and saw
    pc,                 \* per concurrent caller: position inside save_game_stats
    call,               \* per concurrent caller: arguments and locals of its call
    parse               \* the last call into pipeline/parser.py and what it gave

store_vars == <<teams, players, games, team_box_scores, player_box_scores>>
vars == <<teams, players, games, team_box_scores, player_box_scores,
          snapshots, now, ops, last, pc, call, parse>>

\* the content of the database file
Store ==
    [teams |-> teams, players |-> players, games |-> games,
     team_box_scores |-> team_box_scores, player_box_scores |-> player_box_scores]

\* ------------------------------------------------------------- helpers
Max(S) == CHOOSE m \in S : \A x \in S : x <= m

\* INTEGER PRIMARY KEY without AUTOINCREMENT: next rowid is max(rowid)+1
NextId(rows) == IF rows = {} THEN 1 ELSE Max({r.id : r \in rows}) + 1

\* int(v) of save_game_stats: TRUE when the coercion raises
CoercionFails(v) == v = NotAnInt

\* ------------------------------------------------- GameService: reads
\* get_game_by_id with the where-clause lost: any stored game is found
GetGameByIdNoFilter(st, game_id) == st.games

\* get_game_by_id: the Game rows with this id (first() of the select)
GetGameById(st, game_id) == {g \in st.games : g.id = game_id}

\* game_has_stats that never finds a row: the existing-stats check is lost
GameHasStatsUnchecked(st, game_id) == FALSE

\* game_has_stats: some TeamBoxScore row carries this game_id
GameHasStats(st, game_id) == \E r \in st.team_box_scores : r.game_id = game_id

\* GameService.get_game_count: count(Game.id)
GetGameCount(st) == Cardinality(st.games)

\* a count of the TeamBoxScore rows, not of their distinct game ids
GetGamesWithStatsCountRows(st) == Cardinality(st.team_box_scores)

\* GameService.get_games_with_stats_count: count(distinct TeamBoxScore.game_id)
GetGamesWithStatsCount(st) == Cardinality({r.game_id : r \in st.team_box_scores})

\* GameService.get_games_without_stats: the games whose id is not among the
\* game ids of the TeamBoxScore rows
GetGamesWithoutStats(st) ==
    {x \in st.games : x.id \notin {r.game_id : r \in st.team_box_scores}}

\* ------------------------------------------------------------ StatsService
\* the sum of the final scores of these TeamBoxScore rows
RECURSIVE SumOfScores(_)
SumOfScores(rows) ==
    IF rows = {} THEN 0
    ELSE LET r == CHOOSE x \in rows : TRUE
         IN  r.final_score + SumOfScores(rows \ {r})

\* the opponent of a TeamBoxScore row: the first row of the same game with
\* another team_id, none (the empty set) when there is no such row
Opponent(st, game) ==
    LET others == {r \in st.team_box_scores :
                      r.game_id = game.game_id /\ r.team_id # game.team_id}
    IN  IF others = {} THEN {}
        ELSE {CHOOSE r \in others : \A q \in others : r.id <= q.id}

\* _calculate_team_record: wins and points against, over every row of the team
CalculateTeamRecord(st, team_id) ==
    LET team_games == {r \in st.team_box_scores : r.team_id = team_id}
        won == {game \in team_games :
                   \E opponent \in Opponent(st, game) :
                       game.final_score > opponent.final_score}
    IN  [wins |-> Cardinality(won),
         points_against |->
             SumOfScores({[id |-> game.id,
                           final_score |->
                               SumOfScores(Opponent(st, game))] : game \in team_games})]

\* n / d rounded to the nearest integer
Rounded(n, d) == (2 * n + d) \div (2 * d)

\* one entry of the standings, for the rows grouped under a team_id and a
\* team_name; PCT in thousandths, DIFF in tenths
StandingsEntry(st, team_id, team_name) ==
    LET group == {r \in st.team_box_scores :
                     r.team_id = team_id /\ r.team_name = team_name}
        games_played == Cardinality(group)
        points_for == SumOfScores(group)
        record == CalculateTeamRecord(st, team_id)
    IN  [team_id |-> team_id, Team |-> team_name,
         GP |-> games_played,
         W |-> record.wins,
         L |-> games_played - record.wins,
         PCT |-> Rounded(1000 * record.wins, games_played),
         PF |-> points_for,
         PA |-> record.points_against,
         DIFF |-> IF points_for # 0 /\ record.points_against # 0
                      THEN Rounded(10 * (points_for - record.points_against),
                                   games_played)
                      ELSE 0]

\* sorted(..., key = (PCT, DIFF), reverse = True); entries with equal keys
\* stay in the order of the query result, which the query leaves open
RECURSIVE SortedStandings(_)
SortedStandings(entries) ==
    IF entries = {} THEN << >>
    ELSE LET top == CHOOSE e \in entries :
                        \A f \in entries :
                            \/ e.PCT > f.PCT
                            \/ e.PCT = f.PCT /\ e.DIFF >= f.DIFF
         IN  <<top>> \o SortedStandings(entries \ {top})

\* StatsService.get_team_standings
GetTeamStandings(st) ==
    SortedStandings({StandingsEntry(st, r.team_id, r.team_name) :
                        r \in st.team_box_scores})

\* ------------------------------------------- GameService: validation
\* validate_box_score_data: "ok", or the message of the ValueError it raises
ValidateBoxScoreData(d) ==
    LET team_ids == {d.team_box_scores[i].team_id : i \in 1..Len(d.team_box_scores)}
        player_team_ids ==
            {d.player_box_scores[i].team_id : i \in 1..Len(d.player_box_scores)}
    IN  IF Len(d.team_box_scores) = 0 \/ Len(d.team_box_scores) # 2
            THEN "Must have exactly 2 team box scores"
        ELSE IF Len(d.player_box_scores) = 0
            THEN "Player box scores missing"
        ELSE IF ~(player_team_ids \subseteq team_ids)
            THEN "Player team IDs don't match team box score IDs"
        ELSE "ok"

\* db.database.validate_box_score_data: fewer than 2 team records is refused
DbValidateBoxScoreData(d) ==
    IF Len(d.team_box_scores) = 0 \/ Len(d.team_box_scores) < 2
        THEN "Team box scores missing or incomplete"
    ELSE IF Len(d.player_box_scores) = 0
        THEN "Player box scores missing"
    ELSE "ok"

\* ------------------------------------------------ the write session
\* index of the first team record whose team_id int() rejects, 0 if none
FirstBadTeam(d) ==
    LET bad == {i \in 1..Len(d.team_box_scores) :
                    CoercionFails(d.team_box_scores[i].team_id)}
    IN  IF bad = {} THEN 0 ELSE CHOOSE i \in bad : \A j \in bad : i <= j

\* index of the first player record whose team_id or player_id int() rejects
FirstBadPlayer(d) ==
    LET bad == {i \in 1..Len(d.player_box_scores) :
                    \/ CoercionFails(d.player_box_scores[i].team_id)
                    \/ CoercionFails(d.player_box_scores[i].player_id)}
    IN  IF bad = {} THEN 0 ELSE CHOOSE i \in bad : \A j \in bad : i <= j

\* the two loops of session.add(): the rows added to the session, in order,
\* up to the record that raised (if any)
SessionAdds(game_id, d) ==
    LET bt == FirstBadTeam(d)
        bp == FirstBadPlayer(d)
        nt == IF bt = 0 THEN Len(d.team_box_scores) ELSE bt - 1
        np == IF bt # 0 THEN 0
              ELSE IF bp = 0 THEN Len(d.player_box_scores) ELSE bp - 1
    IN  [failed |-> bt # 0 \/ bp # 0,
         cause |-> IF bt # 0 THEN "Invalid team_id" ELSE "Invalid ID",
         team_rows |-> [i \in 1..nt |->
             [game_id |-> game_id] @@ d.team_box_scores[i]],
         player_rows |-> [i \in 1..np |->
             [game_id |-> game_id] @@ d.player_box_scores[i]]]

\* session.commit(): the pending TeamBoxScore rows get the next row ids
CommitTeamRows(table, pending) ==
    table \cup {[id |-> NextId(table) + i - 1] @@ pending[i] : i \in 1..Len(pending)}

\* a commit that loses the last pending PlayerBoxScore row
CommitPlayerRowsOffByOne(table, pending) ==
    table \cup {[id |-> NextId(table) + i - 1] @@ pending[i] :
                    i \in 1..(Len(pending) - 1)}

\* session.commit(): the pending PlayerBoxScore rows get the next row ids
CommitPlayerRows(table, pending) ==
    table \cup {[id |-> NextId(table) + i - 1] @@ pending[i] : i \in 1..Len(pending)}

\* a store with its two box-score tables replaced
WithBoxScores(st, tbs, pbs) ==
    [st EXCEPT !.team_box_scores = tbs, !.player_box_scores = pbs]

\* leaving "with Session(...)" after session.commit()
Committed(st, adds) ==
    WithBoxScores(st, CommitTeamRows(st.team_box_scores, adds.team_rows),
                      CommitPlayerRows(st.player_box_scores, adds.player_rows))

\* an exception path that still commits what the session held
RolledBackKeepsAdded(st, adds) == Committed(st, adds)

\* leaving "with Session(...)" by an exception: nothing that was added is kept
RolledBack(st, adds) == st

\* ---------------------------------------------------------- snapshots
\* hoopqueens_<timestamp>.<ext>: the stamp has a resolution of one second
SnapshotPath(ext, t) == <<ext, t>>

\* shutil.copy2(database_path, snapshot_path): creates or overwrites the file
CopyTo(snaps, path, st) ==
    [n \in DOMAIN snaps \cup {path} |-> IF n = path THEN st ELSE snaps[n]]

\* GameService.create_db_snapshot at second t: hoopqueens_<t>.db
CreateDbSnapshot(snaps, st, t) == CopyTo(snaps, SnapshotPath("db", t), st)

\* db.database.create_db_snapshot at second t: hoopqueens_<t>.sqlite
DbCreateDbSnapshot(snaps, st, t) == CopyTo(snaps, SnapshotPath("sqlite", t), st)

\* ------------------------------------------------ the calls, as functions
\* Each takes the store, the snapshot directory and the clock and gives what
\* the call returns or raises and what it leaves behind.
Outcome(kind, msg, st, snaps, snapshot, added) ==
    [kind |-> kind, msg |-> msg, store |-> st, snaps |-> snaps,
     snapshot |-> snapshot, added |-> added, error |-> << >>, printed |-> << >>]

\* A formatted string is the sequence of its parts; a part is a piece of
\* text or a snapshot path.
Text(s) == <<s, -1>>

\* raise RuntimeError(f"Failed to save game data: {str(e)}")
SaveFailureError(cause) == <<Text("Failed to save game data: "), Text(cause)>>

\* if snapshot_path: print(f"Error occurred. Database snapshot available at: ...")
SaveFailurePrinted(snapshot_path) ==
    IF snapshot_path # NoSnapshot
        THEN <<Text("Error occurred. Database snapshot available at: "), snapshot_path>>
        ELSE << >>

\* an outcome together with the text of the exception raised and what was
\* printed on the way
Reported(out, error, printed) == [out EXCEPT !.error = error, !.printed = printed]

\* the try-block of save_game_stats / save_game_data once the checks passed
WriteSession(st, snaps, snapshot, game_id, d) ==
    LET adds == SessionAdds(game_id, d)
        n == Len(adds.team_rows) + Len(adds.player_rows)
    IN  IF adds.failed
            THEN Reported(Outcome("raise", "Failed to save game data",
                                  RolledBack(st, adds), snaps, snapshot, n),
                          SaveFailureError(adds.cause),
                          SaveFailurePrinted(snapshot))
            ELSE Outcome("return", "Box score data saved",
                         Committed(st, adds), snaps, snapshot, n)

\* GameService.save_game_stats
SaveGameStatsCall(st, snaps, t, game_id, d) ==
    IF ValidateBoxScoreData(d) # "ok"
        THEN Outcome("raise", ValidateBoxScoreData(d), st, snaps, NoSnapshot, 0)
    ELSE IF GetGameById(st, game_id) = {}
        THEN Outcome("raise", "Game not found", st, snaps, NoSnapshot, 0)
    ELSE IF GameHasStats(st, game_id)
        THEN Outcome("return", "Game already has statistics. No changes made.",
                     st, snaps, NoSnapshot, 0)
    ELSE WriteSession(st, CreateDbSnapshot(snaps, st, t),
                      SnapshotPath("db", t), game_id, d)

\* a delete that removes the PlayerBoxScore rows only
DeleteGameStatsPlayersOnly(st, snaps, t, game_id) ==
    Outcome("return", "Deleted stats",
            WithBoxScores(st, st.team_box_scores,
                {r \in st.player_box_scores : r.game_id # game_id}),
            CreateDbSnapshot(snaps, st, t), SnapshotPath("db", t), 0)

\* a delete whose two queries select the rows of every game
DeleteGameStatsEveryGame(st, snaps, t, game_id) ==
    Outcome("return", "Deleted stats", WithBoxScores(st, {}, {}),
            CreateDbSnapshot(snaps, st, t), SnapshotPath("db", t), 0)

\* a delete that leaves the player rows
DeleteGameStatsTeamsOnly(st, snaps, t, game_id) ==
    Outcome("return", "Deleted stats",
            WithBoxScores(st, {r \in st.team_box_scores : r.game_id # game_id},
                          st.player_box_scores),
            CreateDbSnapshot(snaps, st, t), SnapshotPath("db", t), 0)

\* GameService.delete_game_stats
DeleteGameStatsCall(st, snaps, t, game_id) ==
    Outcome("return", "Deleted stats",
            WithBoxScores(st,
                {r \in st.team_box_scores : r.game_id # game_id},
                {r \in st.player_box_scores : r.game_id # game_id}),
            CreateDbSnapshot(snaps, st, t), SnapshotPath("db", t), 0)

\* GameService.update_game_stats: delete at second t, then save at second t2
UpdateGameStatsCall(st, snaps, t, t2, game_id, d) ==
    LET del == DeleteGameStatsCall(st, snaps, t, game_id)
    IN  SaveGameStatsCall(del.store, del.snaps, t2, game_id, d)

\* db.database.save_game_data: validates, snapshots, then checks in the session
SaveGameDataCall(st, snaps, t, game_id, d) ==
    IF DbValidateBoxScoreData(d) # "ok"
        THEN Outcome("raise", DbValidateBoxScoreData(d), st, snaps, NoSnapshot, 0)
    ELSE LET snapped == DbCreateDbSnapshot(snaps, st, t)
             path == SnapshotPath("sqlite", t)
         IN  IF GetGameById(st, game_id) = {}
                 THEN Outcome("raise", "Failed to save game data", st, snapped, path, 0)
             ELSE IF GameHasStats(st, game_id)
                 THEN Outcome("return",
                              "Game already has statistics. No changes made.",
                              st, snapped, path, 0)
             ELSE LET out == WriteSession(st, snapped, path, game_id, d)
                  IN  [out EXCEPT !.printed = << >>]

\* ------------------------------------------------------------ DataSeeder
\* the inner loop of _process_teams: the players of one newly added team
RECURSIVE ProcessPlayers(_, _, _, _)
ProcessPlayers(ps, team_id, names, i) ==
    IF i > Len(names) THEN ps
    ELSE LET existing == \E p \in ps : p.name = names[i] /\ p.team_id = team_id
         IN  ProcessPlayers(
                 IF existing THEN ps
                 ELSE ps \cup {[id |-> NextId(ps), team_id |-> team_id,
                                name |-> names[i]]},
                 team_id, names, i + 1)

\* a _process_teams without the check for a stored team of that name
RECURSIVE ProcessTeamsNoSkip(_, _, _, _)
ProcessTeamsNoSkip(ts, ps, teams_data, i) ==
    IF i > Len(teams_data) THEN [teams |-> ts, players |-> ps]
    ELSE LET team_id == NextId(ts)
         IN  ProcessTeamsNoSkip(ts \cup {[id |-> team_id, name |-> teams_data[i].name]},
                                ProcessPlayers(ps, team_id, teams_data[i].players, 1),
                                teams_data, i + 1)

\* _process_teams: a team whose name is already stored is skipped with its players
RECURSIVE ProcessTeams(_, _, _, _)
ProcessTeams(ts, ps, teams_data, i) ==
    IF i > Len(teams_data) THEN [teams |-> ts, players |-> ps]
    ELSE IF \E t \in ts : t.name = teams_data[i].name
        THEN ProcessTeams(ts, ps, teams_data, i + 1)
    ELSE LET team_id == NextId(ts)
         IN  ProcessTeams(ts \cup {[id |-> team_id, name |-> teams_data[i].name]},
                          ProcessPlayers(ps, team_id, teams_data[i].players, 1),
                          teams_data, i + 1)

\* _process_games: a stored game_number is skipped; a date that cannot be
\* parsed raises out of the loop
RECURSIVE ProcessGames(_, _, _)
ProcessGames(gs, games_data, i) ==
    IF i > Len(games_data) THEN [failed |-> FALSE, games |-> gs]
    ELSE IF \E g \in gs : g.game_number = games_data[i].game_number
        THEN ProcessGames(gs, games_data, i + 1)
    ELSE IF ~games_data[i].date_ok
        THEN [failed |-> TRUE, games |-> gs]
    ELSE ProcessGames(gs \cup {[id |-> NextId(gs),
                                game_number |-> games_data[i].game_number]},
                      games_data, i + 1)

\* DataSeeder.seed_from_dict: one session, committed at the end or rolled back
SeedFromDictCall(st, snaps, data_dict) ==
    LET tp == ProcessTeams(st.teams, st.players, data_dict.teams, 1)
        gm == ProcessGames(st.games, data_dict.games, 1)
    IN  IF gm.failed
            THEN Outcome("return", "Seeding failed", st, snaps, NoSnapshot, 0)
            ELSE Outcome("return", "Added",
                         [st EXCEPT !.teams = tp.teams, !.players = tp.players,
                                    !.games = gm.games],
                         snaps, NoSnapshot, 0)

\* DataSeeder.reset_database: every row of every table is deleted
ResetDatabaseCall(st, snaps) ==
    Outcome("return", "Database reset successfully",
            [teams |-> {}, players |-> {}, games |-> {},
             team_box_scores |-> {}, player_box_scores |-> {}],
            snaps, NoSnapshot, 0)

\* ------------------------------------------------- parser: reconciliation
\* A number put into a message.
Num(n) == <<"#", n>>

\* get_valid_database_ids: the ids of all teams, and for each player id its
\* media_name and team_id; fails when there is no team
GetValidDatabaseIds(st) ==
    IF st.teams = {}
        THEN [failed |-> TRUE,
              error |-> <<Text("No valid team IDs found in database")>>,
              valid_team_ids |-> {}, valid_players |-> << >>]
        ELSE [failed |-> FALSE, error |-> << >>,
              valid_team_ids |-> {t.id : t \in st.teams},
              valid_players |->
                  [id \in {p.id : p \in st.players} |->
                      LET player == CHOOSE p \in st.players : p.id = id
                      IN  [media_name |-> player.name, team_id |-> player.team_id]]]

\* a check of the team records that accepts every team_id
ValidateTeamDataUnchecked(game_data, valid_team_ids) == 0

\* _validate_team_data: position of the first team record whose team_id is
\* not a valid one, 0 when there is none
ValidateTeamData(game_data, valid_team_ids) ==
    LET bad == {i \in 1..Len(game_data.team_box_scores) :
                   game_data.team_box_scores[i].team_id \notin valid_team_ids}
    IN  IF bad = {} THEN 0 ELSE Max({0} \cup {i \in bad : \A j \in bad : i <= j})

\* a correction with "elif": the team is looked at only when the name matched
CorrectedOneFieldPerPass(player_score, expected) ==
    IF player_score.media_name # expected.media_name
        THEN [player_score EXCEPT !.media_name = expected.media_name]
    ELSE IF player_score.team_id # expected.team_id
        THEN [player_score EXCEPT !.team_id = expected.team_id]
    ELSE player_score

\* a correction of the name only
CorrectedNameOnly(player_score, expected) ==
    IF player_score.media_name # expected.media_name
        THEN [player_score EXCEPT !.media_name = expected.media_name]
        ELSE player_score

\* the two corrections of one player record, name first, then team
Corrected(player_score, expected) ==
    LET named == IF player_score.media_name # expected.media_name
                     THEN [player_score EXCEPT !.media_name = expected.media_name]
                     ELSE player_score
    IN  IF named.team_id # expected.team_id
            THEN [named EXCEPT !.team_id = expected.team_id]
            ELSE named

\* the warnings printed for one player record
Warnings(player_score, expected) ==
    (IF player_score.media_name # expected.media_name THEN 1 ELSE 0)
    + (IF player_score.team_id # expected.team_id THEN 1 ELSE 0)

\* _validate_and_correct_player_data: the records are corrected in place, in
\* order; an unknown player_id raises and leaves the earlier records corrected
RECURSIVE ValidateAndCorrectPlayerData(_, _, _, _)
ValidateAndCorrectPlayerData(records, valid_players, i, warned) ==
    IF i > Len(records)
        THEN [failed |-> FALSE, error |-> << >>,
              player_box_scores |-> records, warnings |-> warned]
    ELSE IF records[i].player_id \notin DOMAIN valid_players
        THEN [failed |-> TRUE,
              error |-> <<Text("Invalid player_id: "),
                          Num(records[i].player_id)>>,
              player_box_scores |-> records, warnings |-> warned]
    ELSE LET expected == valid_players[records[i].player_id]
         IN  ValidateAndCorrectPlayerData(
                 [records EXCEPT
                     ![i] = Corrected(records[i], expected)],
                 valid_players, i + 1,
                 warned + Warnings(records[i], expected))

\* what a call of the parser gives: returned or raised, the exception's type
\* and text, the package object as the call leaves it, warnings printed
Parsed(kind, type, error, game_data, warnings) ==
    [kind |-> kind, type |-> type, error |-> error, data |-> game_data,
     warnings |-> warnings]

\* validate_parsed_data
ValidateParsedDataCall(st, game_data) ==
    LET ids == GetValidDatabaseIds(st)
        bt == ValidateTeamData(game_data, ids.valid_team_ids)
        pl == ValidateAndCorrectPlayerData(game_data.player_box_scores,
                                           ids.valid_players, 1, 0)
    IN  IF ids.failed
            THEN Parsed("raise", "ValueError", ids.error, game_data, 0)
        ELSE IF bt # 0
            THEN Parsed("raise", "ValueError",
                        <<Text("Invalid team_id: "),
                          Num(game_data.team_box_scores[bt].team_id)>>,
                        game_data, 0)
        ELSE IF pl.failed
            THEN Parsed("raise", "ValueError", pl.error,
                        [game_data EXCEPT !.player_box_scores = pl.player_box_scores],
                        pl.warnings)
        ELSE Parsed("return", "none", << >>,
                    [game_data EXCEPT !.player_box_scores = pl.player_box_scores],
                    pl.warnings)

\* ---------------------------------------------- parser: the advisory check
\* the smallest number of player records expected for a team
MinPlayers == 5

\* one entry of the list validate_game_data returns: what it is about (a
\* team_id for a player count, the record's position for a percentage: the
\* message names the record), the field and the value
Issue(kind, about, field, value) ==
    [kind |-> kind, about |-> about, field |-> field, value |-> value]

\* _validate_percentage_range: does the value raise
ValidatePercentageRangeRaises(value) == ~(0 <= value /\ value <= 100)

\* the three fields checked, in the order of the try block; the first one
\* out of range ends the block
FirstInvalid(record) ==
    IF ValidatePercentageRangeRaises(record.field_goal_percentage)
        THEN <<"FG%", record.field_goal_percentage>>
    ELSE IF ValidatePercentageRangeRaises(record.three_pointer_percentage)
        THEN <<"3P%", record.three_pointer_percentage>>
    ELSE IF ValidatePercentageRangeRaises(record.free_throw_percentage)
        THEN <<"FT%", record.free_throw_percentage>>
    ELSE <<"", 0>>

\* _validate_team_percentages, for the team record at position i
ValidateTeamPercentages(team, i) ==
    LET bad == FirstInvalid(team)
    IN  IF bad[1] # "" THEN <<Issue("team_percentage", i, bad[1], bad[2])>>
                       ELSE << >>

\* _validate_player_percentages, for the player record at position i
ValidatePlayerPercentages(player, i) ==
    LET bad == FirstInvalid(player)
    IN  IF bad[1] # "" THEN <<Issue("player_percentage", i, bad[1], bad[2])>>
                       ELSE << >>

\* team_player_counts: a dictionary filled from the player records, in the
\* order in which the team ids first appear
RECURSIVE TeamPlayerCounts(_, _, _)
TeamPlayerCounts(records, i, counted) ==
    IF i > Len(records) THEN counted
    ELSE LET team_id == records[i].team_id
             known == \E k \in 1..Len(counted) : counted[k].team_id = team_id
         IN  TeamPlayerCounts(records, i + 1,
                 IF known
                     THEN [k \in 1..Len(counted) |->
                              IF counted[k].team_id = team_id
                                  THEN [counted[k] EXCEPT !.count = @ + 1]
                                  ELSE counted[k]]
                     ELSE Append(counted, [team_id |-> team_id, count |-> 1]))

\* the issues for the entries of team_player_counts with too few players
RECURSIVE FewPlayers(_, _)
FewPlayers(counted, k) ==
    IF k > Len(counted) THEN << >>
    ELSE (IF counted[k].count < MinPlayers
              THEN <<Issue("few_players", counted[k].team_id, "", counted[k].count)>>
              ELSE << >>)
         \o FewPlayers(counted, k + 1)

\* issues.extend(...) over the team records, then over the player records
RECURSIVE TeamIssues(_, _)
TeamIssues(records, i) ==
    IF i > Len(records) THEN << >>
    ELSE ValidateTeamPercentages(records[i], i) \o TeamIssues(records, i + 1)

RECURSIVE PlayerIssues(_, _)
PlayerIssues(records, i) ==
    IF i > Len(records) THEN << >>
    ELSE ValidatePlayerPercentages(records[i], i) \o PlayerIssues(records, i + 1)

\* validate_game_data: the list of issues; it never raises
ValidateGameDataCall(game_data) ==
    (IF Len(game_data.team_box_scores) # 2
         THEN <<Issue("team_count", 0, "", Len(game_data.team_box_scores))>>
         ELSE << >>)
    \o FewPlayers(TeamPlayerCounts(game_data.player_box_scores, 1, << >>), 1)
    \o TeamIssues(game_data.team_box_scores, 1)
    \o PlayerIssues(game_data.player_box_scores, 1)

\* ------------------------------------------------- parser: parse_game_file
\* A file suffix is the sequence of its characters.
ALLOWED_EXTENSIONS ==
    { <<".", "p", "d", "f">>, <<".", "j", "p", "g">>,
      <<".", "j", "p", "e", "g">>, <<".", "p", "n", "g">> }

TEAM_IDS == {1, 2, 3, 4}

\* str.lower, on the characters that occur
LowerChar(c) ==
    CASE c = "P" -> "p" [] c = "D" -> "d" [] c = "F" -> "f"
      [] c = "T" -> "t" [] c = "X" -> "x" [] OTHER -> c

Lower(suffix) == [i \in 1..Len(suffix) |-> LowerChar(suffix[i])]

\* an encode_file that opens the file whatever its suffix
EncodeFileUnchecked(file) ==
    IF ~file.readable
        THEN [failed |-> TRUE, error |-> <<Text("No such file or directory")>>,
              effects |-> <<"file_read">>]
        ELSE [failed |-> FALSE, error |-> << >>, effects |-> <<"file_read">>]

\* encode_file: the suffix is checked before the file is opened
EncodeFile(file) ==
    LET ext == Lower(file.suffix)
    IN  IF ext \notin ALLOWED_EXTENSIONS
            THEN [failed |-> TRUE,
                  error |-> <<Text("Unsupported file type: "), Text("suffix")>>,
                  effects |-> << >>]
        ELSE IF ~file.readable
            THEN [failed |-> TRUE, error |-> <<Text("No such file or directory")>>,
                  effects |-> <<"file_read">>]
        ELSE [failed |-> FALSE, error |-> << >>, effects |-> <<"file_read">>]

\* get_all_teams(TEAM_IDS)
GetAllTeams(st) == {t \in st.teams : t.id \in TEAM_IDS}

\* get_all_players(TEAM_IDS): players of these teams, joined with their team
GetAllPlayers(st) ==
    {p \in st.players : p.team_id \in TEAM_IDS /\ \E t \in st.teams : t.id = p.team_id}

\* the rows of a query result, in the order of their ids
RECURSIVE InIdOrder(_)
InIdOrder(rows) ==
    IF rows = {} THEN << >>
    ELSE LET first == CHOOSE r \in rows : \A q \in rows : r.id <= q.id
         IN  <<first>> \o InIdOrder(rows \ {first})

\* a line of the prompt: a team or a player, with its id and name
Line(kind, id, name) == [kind |-> kind, id |-> id, name |-> name]

\* _format_team_list: one line for each team
FormatTeamList(team_rows) ==
    [i \in 1..Len(team_rows) |-> Line("team", team_rows[i].id, team_rows[i].name)]

\* _format_player_list: a team line whenever the team_id changes, then the
\* player's line
RECURSIVE FormatPlayerList(_, _, _, _)
FormatPlayerList(st, player_rows, i, current_team_id) ==
    IF i > Len(player_rows) THEN << >>
    ELSE LET player == player_rows[i]
             team == CHOOSE t \in st.teams : t.id = player.team_id
         IN  (IF player.team_id # current_team_id
                  THEN <<Line("team", player.team_id, team.name)>>
                  ELSE << >>)
             \o <<Line("player", player.id, player.name)>>
             \o FormatPlayerList(st, player_rows, i + 1, player.team_id)

\* the prompt of a call that never built one
NoPrompt == [team_list |-> << >>, player_list |-> << >>]

\* create_comprehensive_system_prompt: the team lines and the player lines
\* of the prompt; an empty list is no error
CreateComprehensiveSystemPrompt(st) ==
    [team_list |-> FormatTeamList(InIdOrder(GetAllTeams(st))),
     player_list |-> FormatPlayerList(st, InIdOrder(GetAllPlayers(st)), 1, 0)]

\* what parse_game_file gives: as Parsed, with the effects it had outside
\* (file read, store reads, call of the service) in order
ParseResult(kind, type, error, output, effects) ==
    [kind |-> kind, type |-> type, error |-> error, output |-> output,
     effects |-> effects, prompt |-> NoPrompt]

\* a call that got as far as sending its request holds the prompt it sent
Sent(result, st) ==
    IF \E k \in 1..Len(result.effects) : result.effects[k] = "service_call"
        THEN [result EXCEPT !.prompt = CreateComprehensiveSystemPrompt(st)]
        ELSE result

\* the except clauses of parse_game_file, for an exception raised in the try
\* block: its class and its text
Reraised(class, text, effects) ==
    CASE class = "AuthenticationError" ->
            ParseResult("raise", "ValueError",
                        <<Text("Invalid OpenAI API key.")>>, << >>, effects)
      [] class = "RateLimitError" ->
            ParseResult("raise", "RuntimeError",
                        <<Text("OpenAI API rate limit exceeded. Please try again later.")>>,
                        << >>, effects)
      [] class = "OpenAIError" ->
            ParseResult("raise", "RuntimeError",
                        <<Text("OpenAI API error: ")>> \o text, << >>, effects)
      [] OTHER ->
            ParseResult("raise", "RuntimeError",
                        <<Text("Unexpected error during parsing: ")>> \o text,
                        << >>, effects)

\* _handle_api_response: output_parsed is None (here << >>) or a package
HandleApiResponse(st, completion, effects) ==
    IF completion.output_parsed = << >>
        THEN Reraised("RuntimeError", <<Text("Model refused to comply")>>, effects)
        ELSE LET v == ValidateParsedDataCall(st, completion.output_parsed[1])
                 read == effects \o <<"read_ids">>
             IN  IF v.kind = "raise"
                     THEN Reraised(v.type, v.error, read)
                     ELSE ParseResult("return", "none", << >>, <<v.data>>, read)

\* the statements of parse_game_file and what they raise or return
ParseGameFileBody(st, file, key, completion) ==
    LET enc == EncodeFile(file)
        prompted == enc.effects \o <<"read_teams", "read_players">>
        called == prompted \o <<"service_call">>
    IN  IF enc.failed
            THEN ParseResult("raise", "RuntimeError",
                             <<Text("File encoding failed: ")>> \o enc.error,
                             << >>, enc.effects)
        ELSE IF key = "missing"
            THEN Reraised("ValueError",
                          <<Text("OPENAI_API_KEY environment variable is not set.")>>,
                          enc.effects)
        ELSE IF key = "invalid"
            THEN Reraised("AuthenticationError", << >>, called)
        ELSE IF completion.fault = "rate_limit"
            THEN Reraised("RateLimitError", << >>, called)
        ELSE IF completion.fault = "api_error"
            THEN Reraised("OpenAIError", <<Text("service fault")>>, called)
        ELSE HandleApiResponse(st, completion, called)

\* parse_game_file(file_path), with the environment's key and what the
\* service answers to the request
ParseGameFileCall(st, file, key, completion) ==
    Sent(ParseGameFileBody(st, file, key, completion), st)

\* ---------------------------------------------------------------- inputs
\* Percentages are kept in hundredths: 0..100 is the range [0, 1].
\* TeamBoxScoreModel: the id, the four percentage fields, the team's name
\* and its final score
TeamStats(team_id, fg, tp, ft, paint) ==
    [team_id |-> team_id, team_name |-> "t", final_score |-> 70,
     field_goal_percentage |-> fg, three_pointer_percentage |-> tp,
     free_throw_percentage |-> ft, points_in_paint_percentage |-> paint]

\* a team record with this name and this final score
Scored(team, team_name, final_score) ==
    [team EXCEPT !.team_name = team_name, !.final_score = final_score]

\* PlayerBoxScoreModel: ids, media name, points and the three percentage fields
PlayerStats(player_id, team_id, media_name, points, fg, tp, ft) ==
    [player_id |-> player_id, team_id |-> team_id, media_name |-> media_name,
     points |-> points,
     field_goal_percentage |-> fg, three_pointer_percentage |-> tp,
     free_throw_percentage |-> ft]

TeamRec(team_id) == TeamStats(team_id, 50, 50, 50, 50)
PlayerRec(player_id, team_id) == PlayerStats(player_id, team_id, "a", 7, 50, 50, 50)
GameData(ts, ps) == [team_box_scores |-> ts, player_box_scores |-> ps]

\* the argument slot of a call that takes no GameData
NoData == GameData(<<>>, <<>>)

\* packages handed to the save paths: well-formed ones and every way the
\* validators and the write loop can be made to refuse
DataInputs ==
    { GameData(<<TeamRec(1), TeamRec(2)>>, <<PlayerRec(1, 1), PlayerRec(2, 2)>>),
      GameData(<<TeamRec(2), TeamRec(1)>>, <<PlayerRec(2, 2)>>),
      GameData(<<TeamRec(1)>>, <<PlayerRec(1, 1)>>),
      GameData(<<TeamRec(1), TeamRec(2), TeamRec(3)>>, <<PlayerRec(1, 1)>>),
      GameData(<<TeamRec(1), TeamRec(1)>>, <<PlayerRec(1, 1)>>),
      GameData(<<TeamRec(1), TeamRec(2)>>, <<>>),
      GameData(<<>>, <<PlayerRec(1, 1)>>),
      GameData(<<TeamRec(1), TeamRec(2)>>, <<PlayerRec(1, 3)>>),
      GameData(<<TeamRec(1), TeamRec(9)>>, <<PlayerRec(9, 1)>>),
      GameData(<<TeamRec(1), TeamRec(2)>>, <<PlayerRec(1, 1), PlayerRec(NotAnInt, 2)>>),
      GameData(<<TeamRec(1), TeamRec(NotAnInt)>>, <<PlayerRec(1, 1)>>),
      GameData(<<TeamStats(1, 150, 50, 50, 50), TeamRec(2)>>,
               <<PlayerStats(1, 1, "a", 7, 50, 50, 120)>>) }

\* game ids handed to the calls; which of them exist depends on the seeding
GameIdInputs == {1, 2}

SeedTeam(name, names) == [name |-> name, players |-> names]
SeedGame(n, ok) == [game_number |-> n, date_ok |-> ok]

\* seed files: two overlapping ones and one whose game date cannot be parsed
SeedInputs ==
    { [teams |-> <<SeedTeam("A", <<"a">>), SeedTeam("B", <<"b">>)>>,
       games |-> <<SeedGame(1, TRUE)>>],
      [teams |-> <<SeedTeam("B", <<"b">>), SeedTeam("C", <<"c", "c">>)>>,
       games |-> <<SeedGame(1, TRUE), SeedGame(2, TRUE)>>],
      [teams |-> <<SeedTeam("D", <<"d">>)>>,
       games |-> <<SeedGame(3, FALSE)>>] }

\* packages as the extraction service returns them
Roster(team_id, n) == [i \in 1..n |-> PlayerRec(i, team_id)]

ParsedInputs ==
    { \* as the reference after the first seed file has it
      GameData(<<TeamRec(1), TeamRec(2)>>, <<PlayerRec(1, 1), PlayerStats(2, 2, "b", 7, 50, 50, 50)>>),
      \* player 1 under another name and team
      GameData(<<TeamRec(1), TeamRec(2)>>,
               <<PlayerStats(1, 2, "x", 9, 50, 50, 50), PlayerStats(2, 2, "b", 7, 50, 50, 50)>>),
      \* player 1 under its own name, on another team
      GameData(<<TeamRec(1), TeamRec(2)>>, <<PlayerRec(1, 2)>>),
      \* a record to correct, then an unknown player
      GameData(<<TeamRec(1), TeamRec(2)>>,
               <<PlayerStats(1, 2, "x", 9, 50, 50, 50), PlayerStats(9, 1, "z", 7, 50, 50, 50)>>),
      \* an unknown team
      GameData(<<TeamRec(1), TeamRec(9)>>, <<PlayerRec(1, 1)>>),
      \* five players for team 1, none for team 2
      GameData(<<TeamRec(1), TeamRec(2)>>, Roster(1, 5)),
      \* five players for team 1, one for team 2
      GameData(<<TeamRec(1), TeamRec(2)>>, Roster(1, 5) \o <<PlayerRec(2, 2)>>),
      \* percentages out of range: the team's paint percentage alone
      GameData(<<TeamStats(1, 50, 50, 50, 150), TeamRec(2)>>, <<PlayerRec(1, 1)>>),
      \* percentages out of range: a team's and a player's shooting
      GameData(<<TeamRec(1), TeamStats(2, 50, 101, 50, 50)>>,
               <<PlayerRec(1, 1), PlayerStats(2, 2, "b", 7, 50, 50, 120)>>),
      \* one team only
      GameData(<<TeamRec(1)>>, <<PlayerRec(1, 1)>>),
      \* a player of a third team, listed with one of the two teams
      GameData(<<TeamRec(1), TeamRec(2)>>, <<PlayerStats(3, 1, "c", 7, 50, 50, 50)>>) }

File(suffix, readable) == [suffix |-> suffix, readable |-> readable]

FileInputs ==
    { File(<<".", "p", "d", "f">>, TRUE), File(<<".", "P", "D", "F">>, TRUE),
      File(<<".", "j", "p", "g">>, TRUE), File(<<".", "j", "p", "e", "g">>, TRUE),
      File(<<".", "p", "n", "g">>, TRUE), File(<<".", "t", "x", "t">>, TRUE),
      File(<< >>, TRUE), File(<<".", "p", "d", "f">>, FALSE) }

\* OPENAI_API_KEY: not set, set to a key the service rejects, or valid
KeyInputs == {"missing", "invalid", "valid"}

\* what responses.parse does: it raises (rate limit, another fault of the
\* service) or it returns a completion, which holds a refusal or not and a
\* parsed package or None
Completion(fault, refusal, output_parsed) ==
    [fault |-> fault, refusal |-> refusal, output_parsed |-> output_parsed]

\* the packages of ParsedInputs that reconciliation treats differently
ServiceOutputs ==
    {d \in ParsedInputs :
        /\ Len(d.team_box_scores) = 2
        /\ Len(d.player_box_scores) <= 2
        /\ \A i \in 1..2 : d.team_box_scores[i] \in {TeamRec(1), TeamRec(2), TeamRec(9)}
        /\ \A i \in 1..Len(d.player_box_scores) :
               d.player_box_scores[i].free_throw_percentage = 50}

CompletionInputs ==
    { Completion("rate_limit", FALSE, << >>), Completion("api_error", FALSE, << >>),
      Completion("none", TRUE, << >>), Completion("none", FALSE, << >>) }
    \cup {Completion("none", FALSE, <<d>>) : d \in ServiceOutputs}

\* the calls of parse_game_file: every file with a valid key and a service
\* that answers, and a good file with every key and every answer
ParseInputs ==
    {<<file, "valid", completion>> :
        file \in FileInputs,
        completion \in {c \in CompletionInputs : c.fault = "none" /\ ~c.refusal}}
    \cup {<<File(<<".", "p", "d", "f">>, TRUE), key, completion>> :
             key \in KeyInputs, completion \in CompletionInputs}

\* packages of a season: results with a winner, a tie, a team under another
\* name, the same team twice, and two packages that are refused
SeasonData ==
    { GameData(<<Scored(TeamRec(1), "A", 80), Scored(TeamRec(2), "B", 70)>>,
               <<PlayerRec(1, 1), PlayerRec(2, 2)>>),
      GameData(<<Scored(TeamRec(2), "B", 90), Scored(TeamRec(3), "C", 60)>>,
               <<PlayerRec(2, 2)>>),
      GameData(<<Scored(TeamRec(1), "A", 70), Scored(TeamRec(2), "B", 70)>>,
               <<PlayerRec(1, 1)>>),
      GameData(<<Scored(TeamRec(1), "Team A", 60), Scored(TeamRec(2), "B", 90)>>,
               <<PlayerRec(1, 1)>>),
      GameData(<<Scored(TeamRec(1), "A", 80), Scored(TeamRec(1), "A", 70)>>,
               <<PlayerRec(1, 1)>>),
      GameData(<<Scored(TeamRec(1), "A", 80)>>, <<PlayerRec(1, 1)>>),
      GameData(<<Scored(TeamRec(1), "A", 80), Scored(TeamRec(2), "B", 70)>>,
               <<PlayerRec(1, 1), PlayerRec(NotAnInt, 2)>>) }

\* a seed file with the five teams of a league, a player each
LeagueSeed ==
    [teams |-> <<SeedTeam("A", <<"a">>), SeedTeam("B", <<"b">>),
                 SeedTeam("C", <<"c">>), SeedTeam("D", <<"d">>),
                 SeedTeam("E", <<"e">>)>>,
     games |-> <<SeedGame(1, TRUE)>>]

\* ------------------------------------------------------------------ state
Callers == {1, 2}

IdleCall == [game_id |-> 0, data |-> NoData, snapshot |-> NoSnapshot,
             kind |-> "none", msg |-> "none"]

EmptyStore ==
    [teams |-> {}, players |-> {}, games |-> {},
     team_box_scores |-> {}, player_box_scores |-> {}]

\* the record kept of the last completed call
Last(op, game_id, d, before, out) ==
    [op |-> op, game_id |-> game_id, data |-> d, before |-> before,
     kind |-> out.kind, msg |-> out.msg, snapshot |-> out.snapshot,
     added |-> out.added, error |-> out.error, printed |-> out.printed]

\* no call into the parser has been made
NoParse == [op |-> "none"]

\* create_game_service(): empty tables, empty snapshot directory
Init ==
    /\ teams = {} /\ players = {} /\ games = {}
    /\ team_box_scores = {} /\ player_box_scores = {}
    /\ snapshots = << >>
    /\ now = 0
    /\ ops = 0
    /\ last = Last("none", 0, NoData, EmptyStore,
                   Outcome("none", "none", EmptyStore, << >>, NoSnapshot, 0))
    /\ pc = [c \in Callers |-> "idle"]
    /\ call = [c \in Callers |-> IdleCall]
    /\ parse = NoParse

\* what a completed call leaves in the store and the snapshot directory
Leaves(out) ==
    /\ teams' = out.store.teams
    /\ players' = out.store.players
    /\ games' = out.store.games
    /\ team_box_scores' = out.store.team_box_scores
    /\ player_box_scores' = out.store.player_box_scores
    /\ snapshots' = out.snaps

\* ---------------------------------------------- calls made one at a time
SaveGameStats(game_id, d) ==
    /\ ops < MaxOps
    /\ LET out == SaveGameStatsCall(Store, snapshots, now, game_id, d)
       IN  /\ Leaves(out)
           /\ last' = Last("save_game_stats", game_id, d, Store, out)
    /\ ops' = ops + 1
    /\ UNCHANGED <<now, pc, call, parse>>

DeleteGameStats(game_id) ==
    /\ ops < MaxOps
    /\ LET out == DeleteGameStatsCall(Store, snapshots, now, game_id)
       IN  /\ Leaves(out)
           /\ last' = Last("delete_game_stats", game_id, NoData, Store, out)
    /\ ops' = ops + 1
    /\ UNCHANGED <<now, pc, call, parse>>

\* the second may or may not change between the delete and the save
UpdateGameStats(game_id, d) ==
    /\ ops < MaxOps
    /\ \E t2 \in {now, now + 1} :
        /\ t2 <= MaxClock
        /\ now' = t2
        /\ LET out == UpdateGameStatsCall(Store, snapshots, now, t2, game_id, d)
           IN  /\ Leaves(out)
               /\ last' = Last("update_game_stats", game_id, d, Store, out)
    /\ ops' = ops + 1
    /\ UNCHANGED <<pc, call, parse>>

SaveGameData(game_id, d) ==
    /\ ops < MaxOps
    /\ LET out == SaveGameDataCall(Store, snapshots, now, game_id, d)
       IN  /\ Leaves(out)
           /\ last' = Last("save_game_data", game_id, d, Store, out)
    /\ ops' = ops + 1
    /\ UNCHANGED <<now, pc, call, parse>>

SeedFromDict(data_dict) ==
    /\ ops < MaxOps
    /\ LET out == SeedFromDictCall(Store, snapshots, data_dict)
       IN  /\ Leaves(out)
           /\ last' = Last("seed_from_dict", 0, data_dict, Store, out)
    /\ ops' = ops + 1
    /\ UNCHANGED <<now, pc, call, parse>>

ResetDatabase ==
    /\ ops < MaxOps
    /\ LET out == ResetDatabaseCall(Store, snapshots)
       IN  /\ Leaves(out)
           /\ last' = Last("reset_database", 0, NoData, Store, out)
    /\ ops' = ops + 1
    /\ UNCHANGED <<now, pc, call, parse>>

\* a second passes
Tick ==
    /\ now < MaxClock
    /\ now' = now + 1
    /\ UNCHANGED <<store_vars, snapshots, ops, last, pc, call, parse>>

Next ==
    \/ \E g \in GameIdInputs, d \in DataInputs : SaveGameStats(g, d)
    \/ \E g \in GameIdInputs : DeleteGameStats(g)
    \/ \E g \in GameIdInputs, d \in DataInputs : UpdateGameStats(g, d)
    \/ \E g \in GameIdInputs, d \in DataInputs : SaveGameData(g, d)
    \/ \E s \in SeedInputs : SeedFromDict(s)
    \/ ResetDatabase
    \/ Tick

Spec == Init /\ [][Next]_vars

\* ------------------------------- save_game_stats run by concurrent callers
\* Each store access of save_game_stats opens its own Session, so another
\* caller's commit can fall between any two of them.  A caller's position:
\*   idle -> get_game -> has_stats -> snapshot -> write -> done
Finish(c, kind, msg) ==
    /\ pc' = [pc EXCEPT ![c] = "done"]
    /\ call' = [call EXCEPT ![c].kind = kind, ![c].msg = msg]

\* the call is made and validate_box_score_data runs on the argument
CallerBegin(c, game_id, d) ==
    /\ pc[c] \in {"idle", "done"}
    /\ ops < MaxOps
    /\ ops' = ops + 1
    /\ IF ValidateBoxScoreData(d) # "ok"
           THEN /\ pc' = [pc EXCEPT ![c] = "done"]
                /\ call' = [call EXCEPT ![c] =
                       [game_id |-> game_id, data |-> d, snapshot |-> NoSnapshot,
                        kind |-> "raise", msg |-> ValidateBoxScoreData(d)]]
           ELSE /\ pc' = [pc EXCEPT ![c] = "get_game"]
                /\ call' = [call EXCEPT ![c] =
                       [game_id |-> game_id, data |-> d, snapshot |-> NoSnapshot,
                        kind |-> "none", msg |-> "none"]]
    /\ UNCHANGED <<store_vars, snapshots, now, last, parse>>

\* game = self.get_game_by_id(game_id)
CallerGetGame(c) ==
    /\ pc[c] = "get_game"
    /\ IF GetGameById(Store, call[c].game_id) = {}
           THEN Finish(c, "raise", "Game not found")
           ELSE /\ pc' = [pc EXCEPT ![c] = "has_stats"]
                /\ UNCHANGED call
    /\ UNCHANGED <<store_vars, snapshots, now, ops, last, parse>>

\* if self.game_has_stats(game_id): return "Game already has statistics..."
CallerHasStats(c) ==
    /\ pc[c] = "has_stats"
    /\ IF GameHasStats(Store, call[c].game_id)
           THEN Finish(c, "return", "Game already has statistics. No changes made.")
           ELSE /\ pc' = [pc EXCEPT ![c] = "snapshot"]
                /\ UNCHANGED call
    /\ UNCHANGED <<store_vars, snapshots, now, ops, last, parse>>

\* snapshot_path = self.create_db_snapshot()
CallerSnapshot(c) ==
    /\ pc[c] = "snapshot"
    /\ snapshots' = CreateDbSnapshot(snapshots, Store, now)
    /\ pc' = [pc EXCEPT ![c] = "write"]
    /\ call' = [call EXCEPT ![c].snapshot = SnapshotPath("db", now)]
    /\ UNCHANGED <<store_vars, now, ops, last, parse>>

\* the write session: the adds and the commit are one SQLite transaction
CallerWrite(c) ==
    /\ pc[c] = "write"
    /\ LET out == WriteSession(Store, snapshots, call[c].snapshot,
                               call[c].game_id, call[c].data)
       IN  /\ Leaves(out)
           /\ Finish(c, out.kind, out.msg)
    /\ UNCHANGED <<now, ops, last, parse>>

\* two callers on a seeded store: teams 1 and 2, players 1 and 2, game 1
SeededStore ==
    SeedFromDictCall(EmptyStore, << >>,
        [teams |-> <<SeedTeam("A", <<"a">>), SeedTeam("B", <<"b">>)>>,
         games |-> <<SeedGame(1, TRUE)>>]).store

InitConc ==
    /\ teams = SeededStore.teams
    /\ players = SeededStore.players
    /\ games = SeededStore.games
    /\ team_box_scores = {} /\ player_box_scores = {}
    /\ snapshots = << >>
    /\ now = 0
    /\ ops = 0
    /\ last = Last("none", 0, NoData, EmptyStore,
                   Outcome("none", "none", EmptyStore, << >>, NoSnapshot, 0))
    /\ pc = [c \in Callers |-> "idle"]
    /\ call = [c \in Callers |-> IdleCall]
    /\ parse = NoParse

NextConc ==
    \/ \E c \in Callers, g \in GameIdInputs, d \in DataInputs : CallerBegin(c, g, d)
    \/ \E c \in Callers : CallerGetGame(c)
    \/ \E c \in Callers : CallerHasStats(c)
    \/ \E c \in Callers : CallerSnapshot(c)
    \/ \E c \in Callers : CallerWrite(c)
    \/ Tick

SpecConc == InitConc /\ [][NextConc]_vars

\* ------------------------------------------------- the calls over a season
\* the store after the first two seed files were loaded: teams A, B, C with
\* their players, games 1 and 2
SeasonStore ==
    LET first == CHOOSE data_dict \in SeedInputs :
                     data_dict.teams[1].name = "A"
        second == CHOOSE data_dict \in SeedInputs :
                      data_dict.teams[1].name = "B"
    IN  SeedFromDictCall(SeedFromDictCall(EmptyStore, << >>, first).store,
                         << >>, second).store

InitSeason ==
    /\ teams = SeasonStore.teams
    /\ players = SeasonStore.players
    /\ games = SeasonStore.games
    /\ team_box_scores = {} /\ player_box_scores = {}
    /\ snapshots = << >>
    /\ now = 0
    /\ ops = 0
    /\ last = Last("none", 0, NoData, EmptyStore,
                   Outcome("none", "none", EmptyStore, << >>, NoSnapshot, 0))
    /\ pc = [c \in Callers |-> "idle"]
    /\ call = [c \in Callers |-> IdleCall]
    /\ parse = NoParse

NextSeason ==
    \/ \E g \in GameIdInputs, d \in SeasonData : SaveGameStats(g, d)
    \/ \E g \in GameIdInputs : DeleteGameStats(g)
    \/ \E g \in GameIdInputs, d \in SeasonData : UpdateGameStats(g, d)
    \/ \E s \in SeedInputs : SeedFromDict(s)
    \/ Tick

SpecSeason == InitSeason /\ [][NextSeason]_vars

\* ------------------------------------------------------ calls of the parser
\* the reference set a reconciliation reads
Reference(st) == [teams |-> st.teams, players |-> st.players]

\* parse_game_file(file_path)
ParseGameFile(file, key, completion) ==
    /\ parse' = [op |-> "parse_game_file", file |-> file, key |-> key,
                 completion |-> completion, before |-> Store,
                 result |-> ParseGameFileCall(Store, file, key, completion)]
    /\ UNCHANGED <<store_vars, snapshots, now, ops, last, pc, call>>

\* validate_parsed_data(game_data) on a package just received
ValidateParsedData(d) ==
    /\ parse' = [op |-> "validate_parsed_data", given |-> d,
                 reference |-> Reference(Store), again |-> FALSE,
                 previous |-> Parsed("none", "none", << >>, d, 0),
                 previous_reference |-> Reference(Store),
                 result |-> ValidateParsedDataCall(Store, d)]
    /\ UNCHANGED <<store_vars, snapshots, now, ops, last, pc, call>>

\* validate_parsed_data(game_data) once more on the object the previous call
\* was given, as that call left it
ValidateParsedDataAgain ==
    /\ parse.op = "validate_parsed_data"
    /\ ~parse.again
    /\ parse' = [parse EXCEPT
                    !.again = TRUE,
                    !.reference = Reference(Store),
                    !.previous = parse.result,
                    !.previous_reference = parse.reference,
                    !.result = ValidateParsedDataCall(Store, parse.result.data)]
    /\ UNCHANGED <<store_vars, snapshots, now, ops, last, pc, call>>

\* validate_game_data(game_data)
ValidateGameData(d) ==
    /\ parse' = [op |-> "validate_game_data", given |-> d, kind |-> "return",
                 issues |-> ValidateGameDataCall(d)]
    /\ UNCHANGED <<store_vars, snapshots, now, ops, last, pc, call>>

NextParse ==
    \/ \E data_dict \in SeedInputs \cup {LeagueSeed} : SeedFromDict(data_dict)
    \/ ResetDatabase
    \/ \E in \in ParseInputs : ParseGameFile(in[1], in[2], in[3])
    \/ \E d \in ParsedInputs : ValidateParsedData(d)
    \/ ValidateParsedDataAgain
    \/ \E d \in ParsedInputs : ValidateGameData(d)

SpecParse == Init /\ [][NextParse]_vars

\* --------------------------- parse_game_file next to a seeding or a reset
\* The reads of one parse_game_file whose file and key are in order, each in
\* a session of its own, with seed_from_dict and reset_database of another
\* process committing in between.

\* parse_game_file is called: the file is encoded, the client created
PassBegin ==
    /\ IF parse.op = "pass" THEN parse.pc = "done" ELSE TRUE
    /\ parse' = [op |-> "pass", pc |-> "get_all_teams",
                 prompt_teams |-> {}, prompt_players |-> {},
                 valid |-> GetValidDatabaseIds(EmptyStore),
                 at_teams |-> Reference(EmptyStore),
                 at_players |-> Reference(EmptyStore),
                 at_ids |-> Reference(EmptyStore),
                 kind |-> "none"]
    /\ UNCHANGED <<store_vars, snapshots, now, ops, last, pc, call>>

\* get_all_teams(TEAM_IDS), in its session
PassGetAllTeams ==
    /\ parse.op = "pass" /\ parse.pc = "get_all_teams"
    /\ parse' = [parse EXCEPT !.pc = "get_all_players",
                              !.prompt_teams = GetAllTeams(Store),
                              !.at_teams = Reference(Store)]
    /\ UNCHANGED <<store_vars, snapshots, now, ops, last, pc, call>>

\* get_all_players(TEAM_IDS), in its session
PassGetAllPlayers ==
    /\ parse.op = "pass" /\ parse.pc = "get_all_players"
    /\ parse' = [parse EXCEPT !.pc = "responses.parse",
                              !.prompt_players = GetAllPlayers(Store),
                              !.at_players = Reference(Store)]
    /\ UNCHANGED <<store_vars, snapshots, now, ops, last, pc, call>>

\* client.responses.parse: the request is sent and the answer awaited
PassRequest ==
    /\ parse.op = "pass" /\ parse.pc = "responses.parse"
    /\ parse' = [parse EXCEPT !.pc = "validate_parsed_data"]
    /\ UNCHANGED <<store_vars, snapshots, now, ops, last, pc, call>>

\* validate_parsed_data on the package received: get_valid_database_ids in
\* its session, then the checks
PassValidateParsedData(d) ==
    /\ parse.op = "pass" /\ parse.pc = "validate_parsed_data"
    /\ parse' = [parse EXCEPT !.pc = "done",
                              !.valid = GetValidDatabaseIds(Store),
                              !.at_ids = Reference(Store),
                              !.kind = ValidateParsedDataCall(Store, d).kind]
    /\ UNCHANGED <<store_vars, snapshots, now, ops, last, pc, call>>

NextPass ==
    \/ PassBegin
    \/ PassGetAllTeams
    \/ PassGetAllPlayers
    \/ PassRequest
    \/ \E d \in ServiceOutputs : PassValidateParsedData(d)
    \/ \E data_dict \in SeedInputs : SeedFromDict(data_dict)
    \/ ResetDatabase

SpecPass == Init /\ [][NextPass]_vars

\* ======================================================================
\* Properties
\* ======================================================================

TeamRowsOf(g) == {r \in team_box_scores : r.game_id = g}
PlayerRowsOf(g) == {r \in player_box_scores : r.game_id = g}
GameIdsInRows == {r.game_id : r \in team_box_scores \cup player_box_scores}

\* C1: when callers run save_game_stats concurrently for one game, at most
\* one of them inserts rows, so no game ends up with more than one set of
\* box-score rows (more than 2 TeamBoxScore rows).
C1_OneSetOfRowsPerGame ==
    \A g \in GameIdsInRows : Cardinality(TeamRowsOf(g)) <= 2

\* messages
Saved == "Box score data saved"
AlreadyHasStats == "Game already has statistics. No changes made."

\* the package is well formed: exactly two team records, at least one player
\* record, every player record on the team of one of the team records
WellFormed(d) ==
    /\ Len(d.team_box_scores) = 2
    /\ Len(d.player_box_scores) >= 1
    /\ \A i \in 1..Len(d.player_box_scores) :
           \E j \in 1..Len(d.team_box_scores) :
               d.player_box_scores[i].team_id = d.team_box_scores[j].team_id

\* every id of the package is an integer
AllIdsIntegers(d) ==
    /\ \A i \in 1..Len(d.team_box_scores) : d.team_box_scores[i].team_id # NotAnInt
    /\ \A i \in 1..Len(d.player_box_scores) :
           /\ d.player_box_scores[i].team_id # NotAnInt
           /\ d.player_box_scores[i].player_id # NotAnInt

\* the last call found a Game row with this id
HadGame(g) == \E x \in last.before.games : x.id = g

\* the last call found TeamBoxScore rows for this game
HadStats(g) == \E r \in last.before.team_box_scores : r.game_id = g

\* the box-score tables are as the last call found them
BoxScoresUntouched ==
    /\ team_box_scores = last.before.team_box_scores
    /\ player_box_scores = last.before.player_box_scores

\* C2: after any sequence of completed calls, every game's box scores are
\* entirely absent or entirely present: TeamBoxScore rows exist for a game
\* exactly when PlayerBoxScore rows exist for it.
C2_AllOrNothingPerGame ==
    \A g \in GameIdsInRows : (TeamRowsOf(g) # {}) <=> (PlayerRowsOf(g) # {})

\* a populated game survives a delete of another game and a save that failed
\* in the middle of its write
C2_Witness ==
    /\ last.op \in {"save_game_stats", "delete_game_stats"}
    /\ last.before.team_box_scores # {}
    /\ \E g \in GameIdsInRows : TeamRowsOf(g) # {} /\ PlayerRowsOf(g) # {}
    /\ \/ last.op = "delete_game_stats"
       \/ last.kind = "raise" /\ last.added > 0

\* C3: a game that has box scores has exactly two TeamBoxScore rows, for two
\* different teams, and a package whose team-record count is not 2 is refused
\* and writes nothing, on both save paths.
C3_TwoTeamRowsForDistinctTeams ==
    /\ \A g \in GameIdsInRows :
           TeamRowsOf(g) # {} =>
               /\ Cardinality(TeamRowsOf(g)) = 2
               /\ Cardinality({r.team_id : r \in TeamRowsOf(g)}) = 2
    /\ (/\ last.op \in {"save_game_stats", "save_game_data"}
        /\ Len(last.data.team_box_scores) # 2)
           => last.kind = "raise" /\ Store = last.before

\* C4 as stated: on a game that has box scores, save_game_stats with any
\* GameData returns the "already has statistics" message as a normal return
\* value and leaves the saved rows unchanged.
C4_AnyDataIsRefusedByMessage ==
    (last.op = "save_game_stats" /\ HadStats(last.game_id))
        => /\ last.kind = "return"
           /\ last.msg = AlreadyHasStats
           /\ BoxScoresUntouched

\* C4 amended: on a game that has box scores, save_game_stats leaves the
\* saved rows unchanged; with a well-formed package it returns the "already
\* has statistics" message as a normal return value, and with a package that
\* fails validate_box_score_data it raises the validation error.
C4_SecondSaveRefused ==
    (last.op = "save_game_stats" /\ HadStats(last.game_id))
        => /\ BoxScoresUntouched
           /\ IF WellFormed(last.data)
                  THEN last.kind = "return" /\ last.msg = AlreadyHasStats
                  ELSE last.kind = "raise" /\ last.msg # "Failed to save game data"

C4_Witness ==
    /\ last.op = "save_game_stats"
    /\ HadStats(last.game_id)
    /\ WellFormed(last.data)
    /\ last.msg = AlreadyHasStats
    /\ PlayerRowsOf(last.game_id) # {}

\* C5: save_game_stats saves no package that names a team_id that is not a
\* Team of the store or a player_id that is not a Player of the store.
C5_SavedIdsExist ==
    (last.op = "save_game_stats" /\ last.msg = Saved)
        => /\ \A i \in 1..Len(last.data.team_box_scores) :
                  \E t \in last.before.teams :
                      t.id = last.data.team_box_scores[i].team_id
           /\ \A i \in 1..Len(last.data.player_box_scores) :
                  /\ \E t \in last.before.teams :
                         t.id = last.data.player_box_scores[i].team_id
                  /\ \E p \in last.before.players :
                         p.id = last.data.player_box_scores[i].player_id

\* the call got past its checks and an id of some record after the first
\* team record is not an integer, so the write fails after rows were added
FailsAfterAdding ==
    /\ last.op = "save_game_stats"
    /\ WellFormed(last.data)
    /\ HadGame(last.game_id)
    /\ ~HadStats(last.game_id)
    /\ ~AllIdsIntegers(last.data)
    /\ last.data.team_box_scores[1].team_id # NotAnInt

\* C6: a save_game_stats that fails after it started adding rows is rolled
\* back in full: the store is as it was before the call, and the call raises.
C6_FailedSaveRolledBack ==
    FailsAfterAdding
        => /\ Store = last.before
           /\ last.kind = "raise"
           /\ last.msg = "Failed to save game data"

\* the write failed on the second player record, with three rows in the session
C6_Witness ==
    /\ FailsAfterAdding
    /\ last.added = 3
    /\ last.before.team_box_scores # {}

\* C7: a save for a game_id that is not a Game of the store raises and writes
\* no box-score row for any game.
C7_UnknownGameRejected ==
    (/\ last.op \in {"save_game_stats", "save_game_data"}
     /\ ~HadGame(last.game_id))
        => last.kind = "raise" /\ BoxScoresUntouched

\* a well-formed package for a missing game, on a store that has another game
C7_Witness ==
    /\ last.op = "save_game_stats"
    /\ last.before.games # {}
    /\ ~HadGame(last.game_id)
    /\ WellFormed(last.data) /\ AllIdsIntegers(last.data)
    /\ last.msg = "Game not found"

\* the call of C8: an existing game without box scores and a valid package
\* (two team records for distinct teams, player records all on those teams)
ValidSaveOnEmptyGame ==
    /\ last.op = "save_game_stats"
    /\ HadGame(last.game_id)
    /\ ~HadStats(last.game_id)
    /\ WellFormed(last.data) /\ AllIdsIntegers(last.data)
    /\ last.data.team_box_scores[1].team_id # last.data.team_box_scores[2].team_id

\* C8: such a call reports success, afterwards game_has_stats is true, and
\* the store holds one TeamBoxScore row per team record and one
\* PlayerBoxScore row per player record, all carrying the game_id, next to
\* the rows it held before.
C8_ValidSaveInsertsOneRowPerRecord ==
    ValidSaveOnEmptyGame =>
        LET g == last.game_id
            d == last.data
        IN  /\ last.kind = "return" /\ last.msg = Saved
            /\ GameHasStats(Store, g)
            /\ Cardinality(TeamRowsOf(g)) = Len(d.team_box_scores)
            /\ Cardinality(PlayerRowsOf(g)) = Len(d.player_box_scores)
            /\ {r.team_id : r \in TeamRowsOf(g)} =
                   {d.team_box_scores[i].team_id : i \in 1..Len(d.team_box_scores)}
            /\ {<<r.player_id, r.team_id>> : r \in PlayerRowsOf(g)} =
                   {<<d.player_box_scores[i].player_id, d.player_box_scores[i].team_id>> :
                        i \in 1..Len(d.player_box_scores)}
            /\ team_box_scores \ TeamRowsOf(g) = last.before.team_box_scores
            /\ player_box_scores \ PlayerRowsOf(g) = last.before.player_box_scores

\* a two-player package saved into the second game while the first is populated
C8_Witness ==
    /\ ValidSaveOnEmptyGame
    /\ Len(last.data.player_box_scores) = 2
    /\ last.before.team_box_scores # {}

\* C9: whenever one of the four mutating operations changed a row, a snapshot
\* holding the store as it was before the change was created in that call.
C9_SnapshotBeforeEveryChange ==
    (/\ last.op \in {"save_game_stats", "delete_game_stats",
                     "seed_from_dict", "reset_database"}
     /\ Store # last.before)
        => /\ last.snapshot \in DOMAIN snapshots
           /\ snapshots[last.snapshot] = last.before

\* C10: once a snapshot file exists, no later step deletes it or changes its
\* content.
C10_SnapshotsRetained ==
    [][\A n \in DOMAIN snapshots :
           n \in DOMAIN snapshots' /\ snapshots'[n] = snapshots[n]]_vars

\* the parts of a formatted string
Parts(text) == {text[i] : i \in 1..Len(text)}

\* a save_game_stats or delete_game_stats that failed during its write,
\* after it took its snapshot
FailedDuringWrite ==
    /\ last.op \in {"save_game_stats", "delete_game_stats"}
    /\ last.kind = "raise"
    /\ last.snapshot # NoSnapshot

\* C11: when save_game_stats or delete_game_stats fails during its write,
\* the error reported to the caller includes the path of the snapshot taken
\* before the write.
C11_ErrorNamesSnapshot ==
    FailedDuringWrite => last.snapshot \in Parts(last.error)

\* what the code does instead: the path is printed, the error carries the
\* cause only
C11_PathPrintedNotRaised ==
    FailedDuringWrite
        => /\ last.snapshot \in Parts(last.printed)
           /\ last.snapshot \notin Parts(last.error)

\* a percentage, in hundredths, within [0, 1]
InUnitRange(v) == v \in 0..100

\* C17: in every reachable state of the store, every percentage field of
\* every saved TeamBoxScore and PlayerBoxScore row lies in [0, 1].
C17_SavedPercentagesInRange ==
    /\ \A r \in team_box_scores :
           /\ InUnitRange(r.field_goal_percentage)
           /\ InUnitRange(r.three_pointer_percentage)
           /\ InUnitRange(r.free_throw_percentage)
           /\ InUnitRange(r.points_in_paint_percentage)
    /\ \A r \in player_box_scores :
           /\ InUnitRange(r.field_goal_percentage)
           /\ InUnitRange(r.three_pointer_percentage)
           /\ InUnitRange(r.free_throw_percentage)

\* ------------------------------------------------ properties of the parser
\* the package a validate_parsed_data call was given
Given == IF parse.again THEN parse.previous.data ELSE parse.given

\* the stored player with this id
Stored(reference, player_id) == CHOOSE p \in reference.players : p.id = player_id

\* some record of the package names a team or a player the reference lacks
HasUnknownId(d, reference) ==
    \/ \E i \in 1..Len(d.team_box_scores) :
           d.team_box_scores[i].team_id \notin {t.id : t \in reference.teams}
    \/ \E i \in 1..Len(d.player_box_scores) :
           d.player_box_scores[i].player_id \notin {p.id : p \in reference.players}

\* a parse_game_file whose file, key and service are in order and whose
\* answer holds a package
ServiceGavePackage ==
    /\ parse.op = "parse_game_file"
    /\ Lower(parse.file.suffix) \in ALLOWED_EXTENSIONS
    /\ parse.file.readable
    /\ parse.key = "valid"
    /\ parse.completion.fault = "none"
    /\ parse.completion.output_parsed # << >>

\* C12: validate_parsed_data fails whenever a team record's team_id is not
\* among the store's team ids or a player record's player_id is not among
\* the store's player ids, and parse_game_file then yields no package.
C12_UnknownIdsRejected ==
    /\ (parse.op = "validate_parsed_data" /\ HasUnknownId(Given, parse.reference))
           => /\ parse.result.kind = "raise"
              /\ parse.result.type = "ValueError"
    /\ (ServiceGavePackage
          /\ HasUnknownId(parse.completion.output_parsed[1], Reference(parse.before)))
           => /\ parse.result.kind = "raise"
              /\ parse.result.output = << >>

\* the service named an unknown team in a store that has teams
C12_Witness ==
    /\ ServiceGavePackage
    /\ parse.before.teams # {}
    /\ parse.completion.output_parsed[1].team_box_scores[2].team_id = 9
    /\ parse.result.kind = "raise"

\* the statistics of a player record
Statistics(r) ==
    <<r.points, r.field_goal_percentage, r.three_pointer_percentage,
      r.free_throw_percentage>>

\* C13: after validate_parsed_data returns, every player record's media_name
\* and team_id are the stored ones of its player_id, and its player_id and
\* statistics are those it came with.
C13_ReconciledToReference ==
    (parse.op = "validate_parsed_data" /\ parse.result.kind = "return")
        => LET before == Given.player_box_scores
               after == parse.result.data.player_box_scores
           IN  /\ Len(after) = Len(before)
               /\ parse.result.data.team_box_scores = Given.team_box_scores
               /\ \A i \in 1..Len(after) :
                      /\ after[i].player_id = before[i].player_id
                      /\ Statistics(after[i]) = Statistics(before[i])
                      /\ after[i].media_name
                            = Stored(parse.reference, after[i].player_id).name
                      /\ after[i].team_id
                            = Stored(parse.reference, after[i].player_id).team_id

\* a record came with another name and another team, and the call returned
C13_Witness ==
    /\ parse.op = "validate_parsed_data"
    /\ ~parse.again
    /\ parse.result.kind = "return"
    /\ \E i \in 1..Len(parse.given.player_box_scores) :
           /\ parse.given.player_box_scores[i].media_name
                 # parse.result.data.player_box_scores[i].media_name
           /\ parse.given.player_box_scores[i].team_id
                 # parse.result.data.player_box_scores[i].team_id

\* a second validate_parsed_data with the reference set as it was
AppliedTwice ==
    /\ parse.op = "validate_parsed_data"
    /\ parse.again
    /\ parse.reference = parse.previous_reference

\* C14: with an unchanged reference set, a second validate_parsed_data gives
\* what the first gave: the same package, or the same failure.
C14_Idempotent ==
    AppliedTwice
        => /\ parse.result.kind = parse.previous.kind
           /\ parse.result.type = parse.previous.type
           /\ parse.result.error = parse.previous.error
           /\ parse.result.data = parse.previous.data

\* the first application corrected a record
C14_Witness ==
    /\ AppliedTwice
    /\ parse.previous.warnings = 2
    /\ parse.result.kind = "return"

\* the number of player records of the package for this team
PlayerRecordsOf(d, team_id) ==
    Cardinality({j \in 1..Len(d.player_box_scores) :
                    d.player_box_scores[j].team_id = team_id})

\* the issues of the last validate_game_data
Issues == {parse.issues[k] : k \in 1..Len(parse.issues)}

\* C15: validate_game_data reports an issue for every team of the package
\* that has fewer than 5 player records, a team of team_box_scores without
\* any player record included.
C15_FewPlayersReported ==
    parse.op = "validate_game_data"
        => \A i \in 1..Len(parse.given.team_box_scores) :
              LET team_id == parse.given.team_box_scores[i].team_id
              IN  PlayerRecordsOf(parse.given, team_id) < MinPlayers
                      => \E issue \in Issues :
                            issue.kind = "few_players" /\ issue.about = team_id

\* the same for the teams that have at least one player record, which is
\* what the loop over team_player_counts covers
C15_FewPlayersReportedIfAny ==
    parse.op = "validate_game_data"
        => \A i \in 1..Len(parse.given.team_box_scores) :
              LET team_id == parse.given.team_box_scores[i].team_id
                  n == PlayerRecordsOf(parse.given, team_id)
              IN  (0 < n /\ n < MinPlayers)
                      => \E issue \in Issues :
                            issue.kind = "few_players" /\ issue.about = team_id

\* C16: validate_game_data returns, and it reports an issue for every team
\* record with a field goal, three pointer, free throw or points-in-paint
\* percentage outside [0, 1] and for every player record with a field
\* goal, three pointer or free throw percentage outside [0, 1].
C16_OutOfRangeReported ==
    parse.op = "validate_game_data"
        => /\ parse.kind = "return"
           /\ \A i \in 1..Len(parse.given.team_box_scores) :
                  LET r == parse.given.team_box_scores[i]
                  IN  (~InUnitRange(r.field_goal_percentage)
                       \/ ~InUnitRange(r.three_pointer_percentage)
                       \/ ~InUnitRange(r.free_throw_percentage)
                       \/ ~InUnitRange(r.points_in_paint_percentage))
                          => \E issue \in Issues :
                                issue.kind = "team_percentage" /\ issue.about = i
           /\ \A i \in 1..Len(parse.given.player_box_scores) :
                  LET r == parse.given.player_box_scores[i]
                  IN  (~InUnitRange(r.field_goal_percentage)
                       \/ ~InUnitRange(r.three_pointer_percentage)
                       \/ ~InUnitRange(r.free_throw_percentage))
                          => \E issue \in Issues :
                                issue.kind = "player_percentage" /\ issue.about = i

\* C18: parse_game_file rejects a file whose extension is not .pdf, .jpg,
\* .jpeg or .png with an error, before it reads the store or calls the
\* extraction service.
C18_BadExtensionRejectedFirst ==
    (parse.op = "parse_game_file" /\ Lower(parse.file.suffix) \notin ALLOWED_EXTENSIONS)
        => /\ parse.result.kind = "raise"
           /\ parse.result.error[1] = Text("File encoding failed: ")
           /\ parse.result.output = << >>
           /\ parse.result.effects = << >>

\* a .txt file, with a valid key and a service ready to answer with a package
C18_Witness ==
    /\ parse.op = "parse_game_file"
    /\ parse.file.suffix = <<".", "t", "x", "t">>
    /\ parse.key = "valid"
    /\ parse.completion.output_parsed # << >>
    /\ parse.result.kind = "raise"

\* the failure mode of an extraction: the credentials, a decline, no output,
\* rate limiting, another fault of the service; "none" when it has none
FailureMode(key, completion) ==
    IF key # "valid" THEN "credentials"
    ELSE IF completion.fault = "rate_limit" THEN "rate_limit"
    ELSE IF completion.fault # "none" THEN "fault"
    ELSE IF completion.output_parsed # << >> THEN "none"
    ELSE IF completion.refusal THEN "decline"
    ELSE "empty"

\* C19: the errors parse_game_file reports for two different failure modes
\* of the extraction differ.
C19_FailureModesDistinct ==
    (/\ parse.op = "parse_game_file"
     /\ parse.result.kind = "raise"
     /\ FailureMode(parse.key, parse.completion) # "none")
        => \A in \in ParseInputs :
              (/\ in[1] = parse.file
               /\ FailureMode(in[2], in[3]) # "none"
               /\ FailureMode(in[2], in[3]) # FailureMode(parse.key, parse.completion))
                  => LET other == ParseGameFileCall(parse.before, in[1], in[2], in[3])
                     IN  <<other.type, other.error>>
                            # <<parse.result.type, parse.result.error>>

\* C20: with no team in the store, parse_game_file of a readable file of an
\* allowed type fails with a configuration error and does not call the
\* extraction service.
C20_NoTeamsNoServiceCall ==
    (/\ parse.op = "parse_game_file"
     /\ parse.before.teams = {}
     /\ Lower(parse.file.suffix) \in ALLOWED_EXTENSIONS
     /\ parse.file.readable)
        => /\ parse.result.kind = "raise"
           /\ \A k \in 1..Len(parse.result.effects) :
                  parse.result.effects[k] # "service_call"

\* a parse_game_file that sent its request to the extraction service
RequestSent ==
    /\ parse.op = "parse_game_file"
    /\ \E k \in 1..Len(parse.result.effects) : parse.result.effects[k] = "service_call"

\* the line of the player list at position k stands under the line of this team
ListedUnder(player_list, k, team_id) ==
    \E h \in 1..(k - 1) :
        /\ player_list[h].kind = "team"
        /\ player_list[h].id = team_id
        /\ \A j \in (h + 1)..(k - 1) : player_list[j].kind = "player"

\* C21: the prompt sent to the extraction service lists every team and
\* every player of the store, each player under its own team.
C21_PromptListsWholeStore ==
    RequestSent
        => LET prompt == parse.result.prompt
           IN  /\ \A t \in parse.before.teams :
                      \E k \in 1..Len(prompt.team_list) : prompt.team_list[k].id = t.id
               /\ \A p \in parse.before.players :
                      \E k \in 1..Len(prompt.player_list) :
                          /\ prompt.player_list[k].kind = "player"
                          /\ prompt.player_list[k].id = p.id
                          /\ ListedUnder(prompt.player_list, k, p.team_id)

\* the same for the teams with an id in TEAM_IDS and their players, which
\* are the ones the two queries select
C21_PromptListsFirstFourTeams ==
    RequestSent
        => LET prompt == parse.result.prompt
           IN  /\ \A t \in parse.before.teams :
                      t.id \in 1..4 =>
                      \E k \in 1..Len(prompt.team_list) : prompt.team_list[k].id = t.id
               /\ \A p \in parse.before.players :
                      p.team_id \in 1..4 =>
                      \E k \in 1..Len(prompt.player_list) :
                          /\ prompt.player_list[k].kind = "player"
                          /\ prompt.player_list[k].id = p.id
                          /\ ListedUnder(prompt.player_list, k, p.team_id)

\* the box-score rows of the games other than g, in this store
RowsOfOtherGames(st, g) ==
    <<{r \in st.team_box_scores : r.game_id # g},
      {r \in st.player_box_scores : r.game_id # g}>>

\* C22: delete_game_stats(g) removes every TeamBoxScore and PlayerBoxScore
\* row of game g and leaves the rows of the other games and all Team,
\* Player and Game rows as they were.
C22_DeleteRemovesOneGameOnly ==
    last.op = "delete_game_stats"
        => /\ TeamRowsOf(last.game_id) = {}
           /\ PlayerRowsOf(last.game_id) = {}
           /\ RowsOfOtherGames(Store, last.game_id)
                 = RowsOfOtherGames(last.before, last.game_id)
           /\ teams = last.before.teams
           /\ players = last.before.players
           /\ games = last.before.games

\* the rows of one game were deleted while another game had rows
C22_Witness ==
    /\ last.op = "delete_game_stats"
    /\ \E r \in last.before.team_box_scores : r.game_id = last.game_id
    /\ \E r \in last.before.player_box_scores : r.game_id = last.game_id
    /\ \E r \in team_box_scores : r.game_id # last.game_id
    /\ \E r \in player_box_scores : r.game_id # last.game_id

\* the store the last call found, had game g never been given box scores
NeverPopulated(g) ==
    [last.before EXCEPT
        !.team_box_scores = {r \in last.before.team_box_scores : r.game_id # g},
        !.player_box_scores = {r \in last.before.player_box_scores : r.game_id # g}]

\* one save_game_stats of the last call's package on that store
SingleSave == SaveGameStatsCall(NeverPopulated(last.game_id), << >>, 0,
                                last.game_id, last.data)

\* the last call was the delete-then-save of a populated game, with a
\* package that a single save accepts
ResavedPopulatedGame ==
    /\ last.op = "update_game_stats"
    /\ HadStats(last.game_id)
    /\ SingleSave.msg = Saved

\* C23: for a populated game, delete_game_stats followed by save_game_stats
\* of a valid package leaves as many TeamBoxScore and PlayerBoxScore rows
\* for the game as a single save of that package on a game that never had
\* box scores.
C23_DeleteThenSaveCountsAsSingleSave ==
    ResavedPopulatedGame
        => LET g == last.game_id
               single == SingleSave.store
           IN  /\ last.msg = Saved
               /\ Cardinality(TeamRowsOf(g))
                     = Cardinality({r \in single.team_box_scores : r.game_id = g})
               /\ Cardinality(PlayerRowsOf(g))
                     = Cardinality({r \in single.player_box_scores : r.game_id = g})

\* a game that held two player rows was given a package with one
C23_Witness ==
    /\ ResavedPopulatedGame
    /\ Cardinality({r \in last.before.player_box_scores : r.game_id = last.game_id}) = 2
    /\ Cardinality(PlayerRowsOf(last.game_id)) = 1

\* C25: update_game_stats(g, data) either replaces the game's box scores by
\* the rows of data or, when the package is rejected or the save fails,
\* leaves the game's previous box-score rows in the store.
C25_UpdateAllOrNothing ==
    last.op = "update_game_stats"
        => \/ /\ last.kind = "return"
              /\ last.msg = Saved
           \/ /\ TeamRowsOf(last.game_id)
                    = {r \in last.before.team_box_scores : r.game_id = last.game_id}
              /\ PlayerRowsOf(last.game_id)
                    = {r \in last.before.player_box_scores : r.game_id = last.game_id}

\* C26: when validate_parsed_data raises because of an unknown player_id,
\* the GameData it was given is as it was: no earlier player record has had
\* its media_name or team_id rewritten.
C26_FailureLeavesPackageAlone ==
    (/\ parse.op = "validate_parsed_data"
     /\ parse.result.kind = "raise"
     /\ parse.result.error[1] = Text("Invalid player_id: "))
        => parse.result.data = Given

\* C27: a package that validate_parsed_data returns, with two team records
\* and at least one player record, passes validate_box_score_data: every
\* player record's team_id is the team_id of one of the team records.
C27_ReconciledPassesGateway ==
    (/\ parse.op = "validate_parsed_data"
     /\ parse.result.kind = "return"
     /\ Len(parse.result.data.team_box_scores) = 2
     /\ Len(parse.result.data.player_box_scores) >= 1)
        => /\ ValidateBoxScoreData(parse.result.data) = "ok"
           /\ \A i \in 1..Len(parse.result.data.player_box_scores) :
                  \E j \in 1..2 :
                      parse.result.data.player_box_scores[i].team_id
                        = parse.result.data.team_box_scores[j].team_id

\* the three reads of the pass are what one state of the store gives
ReadsFrom(reference) ==
    /\ parse.prompt_teams = GetAllTeams(reference)
    /\ parse.prompt_players = GetAllPlayers(reference)
    /\ parse.valid = GetValidDatabaseIds(reference)

\* C24: the teams and the players that one parse_game_file uses to build
\* its prompt and to reconcile the result are those of one state of the
\* store, whatever a seeding or a reset commits in between.
C24_SingleConsistentRead ==
    (parse.op = "pass" /\ parse.pc = "done")
        => \E reference \in {parse.at_teams, parse.at_players, parse.at_ids} :
              ReadsFrom(reference)

\* the same for a pass during which the store did not change
C24_ConsistentIfStoreUnchanged ==
    (/\ parse.op = "pass" /\ parse.pc = "done"
     /\ parse.at_teams = parse.at_players
     /\ parse.at_players = parse.at_ids)
        => ReadsFrom(parse.at_ids)

\* C28: the read queries agree on which games have statistics: a game is
\* returned by get_games_without_stats exactly when game_has_stats is false
\* for it, and get_games_with_stats_count plus the number of games that
\* get_games_without_stats returns is get_game_count.
C28_ReadQueriesAgree ==
    /\ \A x \in games :
           (x \in GetGamesWithoutStats(Store)) <=> ~GameHasStats(Store, x.id)
    /\ GetGamesWithStatsCount(Store) + Cardinality(GetGamesWithoutStats(Store))
         = GetGameCount(Store)

\* after a save or a delete, one game has statistics and another has none
C28_Witness ==
    /\ last.op \in {"save_game_stats", "delete_game_stats"}
    /\ GetGamesWithStatsCount(Store) = 1
    /\ Cardinality(GetGamesWithoutStats(Store)) = 1

\* C29: after any sequence of seed_from_dict calls no two teams share a
\* name and no two games share a game_number, and seeding the data of the
\* last seed_from_dict once more adds no team, player or game and leaves
\* the store as that call left it.
C29_SeedingIdempotentKeysUnique ==
    /\ \A t1, t2 \in teams : t1.name = t2.name => t1 = t2
    /\ \A g1, g2 \in games : g1.game_number = g2.game_number => g1 = g2
    /\ last.op = "seed_from_dict"
           => SeedFromDictCall(Store, snapshots, last.data).store = Store

\* a seed file whose first team was stored already was loaded, and the
\* store is as it was
C29_Witness ==
    /\ last.op = "seed_from_dict"
    /\ last.msg = "Added"
    /\ \E t \in last.before.teams : t.name = last.data.teams[1].name
    /\ \E t \in last.before.teams : t.name = last.data.teams[2].name
    /\ Store = last.before

\* the games with rows, and those of them whose final scores differ
PopulatedGames == {r.game_id : r \in team_box_scores}
DecidedGames ==
    {g \in PopulatedGames :
        \E r, q \in TeamRowsOf(g) : r.final_score # q.final_score}

\* the rows of a team that show a final score above that of a row of
\* another team in the same game
WonRows(team_id) ==
    {r \in team_box_scores :
        /\ r.team_id = team_id
        /\ \E q \in TeamRowsOf(r.game_id) :
               q.team_id # team_id /\ r.final_score > q.final_score}

\* the sum of W over the entries of the standings
RECURSIVE SumOfWins(_, _)
SumOfWins(standings, i) ==
    IF i > Len(standings) THEN 0
    ELSE standings[i].W + SumOfWins(standings, i + 1)

\* C30: in get_team_standings every team has W + L = GP, W counts the
\* games in which the team's final_score is above the other team's, and
\* the wins of all teams together are as many as the populated games whose
\* two final scores differ.
C30_StandingsAddUp ==
    LET standings == GetTeamStandings(Store)
    IN  /\ \A i \in 1..Len(standings) :
               /\ standings[i].W + standings[i].L = standings[i].GP
               /\ standings[i].W = Cardinality(WonRows(standings[i].team_id))
        /\ SumOfWins(standings, 1) = Cardinality(DecidedGames)

\* every game with rows has them from two teams, and every team appears
\* under one name
TwoTeamsOneName ==
    /\ \A g \in PopulatedGames :
           Cardinality({r.team_id : r \in TeamRowsOf(g)}) = 2
    /\ \A r, q \in team_box_scores : r.team_id = q.team_id => r.team_name = q.team_name

\* in such a store the standings add up
C30_StandingsAddUpForCleanStore == TwoTeamsOneName => C30_StandingsAddUp

====
